---- MODULE Spec2Model ----
(***************************************************************************)
(* A model of src/src/tutor.py (class SQLTutor): the result comparator     *)
(* compare_results, the hint policy get_progressive_hint, the advisor call *)
(* get_ai_feedback, exercise selection get_query_by_level and the attempt  *)
(* loop of practice_session.                                               *)
(*                                                                         *)
(* The external capabilities (sqlite executor, sentence embedder, advisor  *)
(* client, learner input) are nondeterministic choices over the outcomes   *)
(* they can produce.                                                       *)
(***************************************************************************)
EXTENDS Integers, Sequences, FiniteSets, TLC

\* ------------------------------------------------------------------ bounds

\* Largest number of rows in a modelled result set.
MaxRows == 2

\* Number of exercises queries.json holds for each level.
NumExercises == 2

\* Cap on generated_exercise_counter.
MaxGenerated == 1

\* Dimension of the modelled embedding vectors.
EmbedDim == 2

\* Largest number of rows handed to display_results.
MaxDisplayRows == 12

\* ------------------------------------------------------- program constants

\* practice_session: max_attempts = 3 (line 292).
max_attempts == 3

\* get_progressive_hint thresholds 0.8, 0.6, 0.4, in hundredths.
NearMissThreshold == 80
OnTrackThreshold == 60
PartialThreshold == 40

\* display_results prints results[:10] (line 443).
DisplayLimit == 10

\* sqlite3 renders SQL NULL as Python None; here a value outside the integers
\* that the modelled columns hold.
None == 0

\* A float NaN (numpy yields it for 0/0 with a RuntimeWarning, not an
\* exception); every ordered comparison with it is False.
NaN == 999

\* ------------------------------------------------------------ result sets

\* Values of the first (NOT NULL, integer) and of the second (nullable)
\* column of a modelled row.
KeyValues == {1, 2}
NullableValues == {None, 1}

RowUniverse == {<<k, v>> : k \in KeyValues, v \in NullableValues}

ColumnLists == {<<"id", "name">>, <<"name", "id">>}

RowLists == UNION {[1..n -> RowUniverse] : n \in 0..MaxRows}

\* execute_query returns (success, results, columns, error): on success the
\* fetched rows and the column names, on any exception (False, None, None, str(e)).
FailedExecution == [success |-> FALSE, rows |-> <<>>, columns |-> <<>>]

\* A statement that yields no result set (cursor.description is None):
\* success with results [] and columns [].
NoResultSet == [success |-> TRUE, rows |-> <<>>, columns |-> <<>>]

ExecResults ==
    {[success |-> TRUE, rows |-> rs, columns |-> cs] : rs \in RowLists, cs \in ColumnLists}
        \cup {NoResultSet, FailedExecution}

\* ------------------------------------------------- Python tuple comparison

MinOf(S) == CHOOSE x \in S : \A y \in S : x <= y

DiffPositions(a, b) ==
    {i \in 1..(IF Len(a) < Len(b) THEN Len(a) ELSE Len(b)) : a[i] # b[i]}

\* a < b on tuples raises TypeError when the first differing position holds
\* None on one side and an integer on the other.
TupleCompareRaises(a, b) ==
    LET D == DiffPositions(a, b)
    IN  D # {} /\ (a[MinOf(D)] = None \/ b[MinOf(D)] = None)

\* a < b on tuples: the first differing position decides, else the lengths.
TupleLess(a, b) ==
    LET D == DiffPositions(a, b)
    IN  IF D = {} THEN Len(a) < Len(b) ELSE a[MinOf(D)] < b[MinOf(D)]

\* sorted(rows) raises TypeError iff some two rows of the list are not
\* comparable: a comparison sort has to order every two elements either
\* directly or through elements lying between them, and two rows that differ
\* first in a None/integer position have no row between them that is
\* comparable with both.
SortedRaises(rows) ==
    \E i, j \in 1..Len(rows) : TupleCompareRaises(rows[i], rows[j])

RECURSIVE InsertRow(_, _)
InsertRow(row, sortedRows) ==
    IF sortedRows = <<>> THEN <<row>>
    ELSE IF TupleLess(row, Head(sortedRows)) THEN <<row>> \o sortedRows
    ELSE <<Head(sortedRows)>> \o InsertRow(row, Tail(sortedRows))

RECURSIVE Sorted(_)
Sorted(rows) ==
    IF rows = <<>> THEN <<>> ELSE InsertRow(Head(rows), Sorted(Tail(rows)))

\* ------------------------------------------------------- compare_results

\* The comparator with its "if not success1 or not success2" guard dropped.
compare_results_unguarded(user, solution) ==
    IF SortedRaises(user.rows) \/ SortedRaises(solution.rows) THEN "TypeError"
    ELSE IF Sorted(user.rows) = Sorted(solution.rows) /\ user.columns = solution.columns
         THEN "True" ELSE "False"

\* compare_results on the two executions it performs: "True" / "False", or
\* "TypeError" when sorted() raises (nothing in compare_results catches it).
compare_results(user, solution) ==
    IF ~user.success \/ ~solution.success THEN "False"
    ELSE IF SortedRaises(user.rows) \/ SortedRaises(solution.rows) THEN "TypeError"
    ELSE IF Sorted(user.rows) = Sorted(solution.rows) /\ user.columns = solution.columns
         THEN "True" ELSE "False"

\* What one call of compare_results inside a session can yield: the success
\* flags of its two executions and its outcome.
CompareOutcomes ==
    {[userOk |-> u.success, refOk |-> r.success, out |-> compare_results(u, r)] :
        u \in ExecResults, r \in ExecResults}

\* -------------------------------------------------- get_progressive_hint

\* Similarity scores in hundredths (cosine similarity lies in [-1, 1]).
ScoreValues == {-100, -1, 0, 39, 40, 41, 59, 60, 61, 79, 80, 81, 100}
Scores == ScoreValues \cup {NaN}

\* Python's float ">" : False whenever an operand is NaN.
FloatGreater(x, y) == x # NaN /\ y # NaN /\ x > y

\* The basic hints with ">=" in place of ">".
BasicHintInclusive(similarity_score) ==
    IF similarity_score # NaN /\ similarity_score >= NearMissThreshold THEN "NearMiss"
    ELSE IF similarity_score # NaN /\ similarity_score >= OnTrackThreshold THEN "OnTrack"
    ELSE IF similarity_score # NaN /\ similarity_score >= PartialThreshold THEN "Partial"
    ELSE "OffTrack"

\* The basic hints taken on the magnitude of the score.
BasicHintOnMagnitude(similarity_score) ==
    LET m == IF similarity_score < 0 THEN -similarity_score ELSE similarity_score
    IN  IF FloatGreater(m, NearMissThreshold) THEN "NearMiss"
        ELSE IF FloatGreater(m, OnTrackThreshold) THEN "OnTrack"
        ELSE IF FloatGreater(m, PartialThreshold) THEN "Partial"
        ELSE "OffTrack"

\* The hints given without an advisor (lines 209-216), named by tier:
\* "You're very close!..." / "You're on the right track..." /
\* "You have some correct elements..." / "Try a different approach...".
BasicHint(similarity_score) ==
    IF FloatGreater(similarity_score, NearMissThreshold) THEN "NearMiss"
    ELSE IF FloatGreater(similarity_score, OnTrackThreshold) THEN "OnTrack"
    ELSE IF FloatGreater(similarity_score, PartialThreshold) THEN "Partial"
    ELSE "OffTrack"

\* What a call of client.messages.create does.
AdvisorOutcomes == {"ok", "raise"}

\* Learner query texts; they only enter the advisor prompt.
UserQueries == {"q1", "q2"}

\* get_progressive_hint without its "if not self.client" branch.
get_progressive_hint_no_fallback(hasClient, user_query, similarity_score, attemptNo, advisor) ==
    IF advisor = "ok" THEN "AdvisorText" ELSE "ErrorGeneratingHint"

\* get_progressive_hint: the basic hint without a client; otherwise the
\* advisor's text, or "Error generating hint: ..." when the call raises.
get_progressive_hint(hasClient, user_query, similarity_score, attemptNo, advisor) ==
    IF ~hasClient THEN BasicHint(similarity_score)
    ELSE IF advisor = "ok" THEN "AdvisorText"
    ELSE "ErrorGeneratingHint"

\* get_ai_feedback with its try/except removed: the advisor's exception
\* reaches the caller.
get_ai_feedback_uncaught(hasClient, advisor) ==
    IF ~hasClient THEN "FeedbackUnavailable"
    ELSE IF advisor = "ok" THEN "AdvisorText"
    ELSE "Raised"

\* get_ai_feedback: a fixed text without a client; otherwise the advisor's
\* text, or "Error getting AI feedback: ..." when the call raises.
get_ai_feedback(hasClient, advisor) ==
    IF ~hasClient THEN "FeedbackUnavailable"
    ELSE IF advisor = "ok" THEN "AdvisorText"
    ELSE "ErrorGettingFeedback"

\* ------------------------------------------- calculate_query_similarity

\* What embedder.encode followed by the cosine does: an exception of the
\* embedder (raised), or a float, NaN included (zero norm).
ScorerOutcomes ==
    {[raised |-> FALSE, value |-> s] : s \in Scores} \cup {[raised |-> TRUE, value |-> NaN]}

\* Embedding vectors: EmbedDim components in -1..1.
Vectors == [1..EmbedDim -> -1..1]

RECURSIVE DotUpTo(_, _, _)
DotUpTo(a, b, n) == IF n = 0 THEN 0 ELSE a[n] * b[n] + DotUpTo(a, b, n - 1)

\* np.dot.
Dot(a, b) == DotUpTo(a, b, EmbedDim)

\* np.linalg.norm, squared.
NormSq(a) == Dot(a, a)

\* The integer square root of x in 0..10000.
ISqrt(x) == CHOOSE r \in 0..100 : r * r <= x /\ (r + 1) * (r + 1) > x

\* calculate_query_similarity on the two embeddings (lines 188-192):
\* dot / (norm * norm) in hundredths, truncated; with a zero norm the
\* division is 0/0, which numpy evaluates to NaN.
calculate_query_similarity(e1, e2) ==
    LET d == Dot(e1, e2)
        p == NormSq(e1) * NormSq(e2)
    IN  IF p = 0 THEN NaN
        ELSE (IF d < 0 THEN -1 ELSE 1) * ISqrt((10000 * d * d) \div p)

\* -------------------------------------------------------- display_results

\* Rows handed to display_results.
DisplayRows == {<<1, None>>, <<2, 1>>}

DisplayInputs == UNION {[1..n -> DisplayRows] : n \in 0..MaxDisplayRows}

\* "if len(results) >= 10".
MoreRowsShownInclusive(n) == n >= DisplayLimit

\* "if len(results) > 10" (line 446).
MoreRowsShown(n) == n > DisplayLimit

\* display_results (lines 433-447): nothing but "(No rows returned)" for
\* no rows; else results[:10] and, beyond 10 rows, "... (n - 10 more rows)".
display_results(results) ==
    IF results = <<>> THEN [printed |-> <<>>, more |-> <<>>]
    ELSE [printed |-> SubSeq(results, 1,
                             IF Len(results) < DisplayLimit THEN Len(results)
                             ELSE DisplayLimit),
          more |-> IF MoreRowsShown(Len(results))
                   THEN <<Len(results) - DisplayLimit>> ELSE <<>>]

\* ------------------------------------------------------------------ state

Levels == {"beginner", "intermediate", "advanced"}

VARIABLES
    client,                     \* self.client is set (an API key was found)
    level,                      \* the level main() passes to practice_session
    queries,                    \* self.queries: level -> list of exercise ids
    completed_exercises,        \* self.completed_exercises: level -> set of ids
    generated_exercise_counter, \* self.generated_exercise_counter
    query_data,                 \* the id of the session's exercise
    selection,                  \* get_query_by_level's last call: total_exercises,
                                \* what generation did, whether the exercise
                                \* returned was already completed
    pc,                         \* position in practice_session
    attempt,                    \* practice_session's attempt
    user_query,                 \* the learner's query read at line 298
    success,                    \* success of the execution at line 301
    is_correct,                 \* "unset" or the comparator's verdict
    compared,                   \* success flags of compare_results' two executions
    similarity,                 \* <<>> or <<the score computed in this attempt>>
    msg,                        \* the verdict line printed in this attempt
    hintText,                   \* the progressive hint printed in this attempt
    feedbackText,               \* the get_ai_feedback text printed in this attempt
    calls,                      \* per attempt: calls made and menus offered
    revealed,                   \* the solution was printed in this session
    exit,                       \* how the attempt loop was left
    history,                    \* outcomes of the session's attempts so far
    cmp,                        \* one call of compare_results: inputs and outcome
    hint,                       \* one call of get_progressive_hint: inputs and outcome
    scoring,                    \* one call of calculate_query_similarity
    display                     \* one call of display_results

sessionVars ==
    <<client, level, selection, queries, completed_exercises,
      generated_exercise_counter, query_data, pc, attempt, user_query, success,
      is_correct, compared, similarity, msg, hintText, feedbackText, calls, revealed,
      exit, history>>

vars == <<sessionVars, cmp, hint, scoring, display>>

NoCalls ==
    [scorer |-> 0, hintPolicy |-> 0, feedback |-> 0, userExec |-> 0, refExec |-> 0,
     menu |-> FALSE]

NotSelected == [total_exercises |-> 0, generation |-> "none", wasCompleted |-> FALSE]

NotCompared == [userOk |-> FALSE, refOk |-> FALSE]

CmpIdle == [user |-> FailedExecution, solution |-> FailedExecution, out |-> "idle"]

ScoreIdle == [e1 |-> <<0, 0>>, e2 |-> <<0, 0>>, out |-> <<>>]

DisplayIdle == [results |-> <<>>, called |-> FALSE, printed |-> <<>>, more |-> <<>>]

HintIdle ==
    [hasClient |-> FALSE, user_query |-> "q1", score |-> 0, attemptNo |-> 1,
     advisor |-> "ok", out |-> "idle"]

\* SQLTutor.__init__ followed by main() choosing the level.
InitSession ==
    /\ client \in BOOLEAN
    /\ level \in Levels
    /\ queries = [l \in Levels |-> [i \in 1..NumExercises |-> i]]
    /\ completed_exercises = [l \in Levels |-> {}]
    /\ generated_exercise_counter = 0
    /\ query_data = 0
    /\ selection = NotSelected
    /\ pc = "select"
    /\ attempt = 0
    /\ user_query = "q1"
    /\ success = FALSE
    /\ is_correct = "unset"
    /\ compared = NotCompared
    /\ similarity = <<>>
    /\ msg = "none"
    /\ hintText = "none"
    /\ feedbackText = "none"
    /\ calls = NoCalls
    /\ revealed = FALSE
    /\ exit = "none"
    /\ history = <<>>

Init ==
    InitSession /\ cmp = CmpIdle /\ hint = HintIdle /\ scoring = ScoreIdle /\ display = DisplayIdle

\* ------------------------------------------------------- practice_session

\* "while attempt <= max_attempts".
LoopGuardInclusive(a) == a <= max_attempts

\* The loop condition "while attempt < max_attempts" (line 295).
LoopGuard(a) == a < max_attempts

\* "attempt += 2".
NextAttemptSkipping(a) == a + 2

\* "attempt += 1" (line 296).
NextAttempt(a) == a + 1

\* "if attempt <= max_attempts".
AttemptsRemainInclusive(a) == a <= max_attempts

\* "if attempt < max_attempts" (line 378): a further attempt remains.
AttemptsRemain(a) == a < max_attempts

\* The branch on success taken the wrong way round.
AfterExecuteInverted(ok) == IF ok THEN "score_failed" ELSE "compare"

\* "if not success" (line 303): the failed-execution path, else on to
\* compare_results (line 340).
AfterExecute(ok) == IF ok THEN "compare" ELSE "score_failed"

\* The correct branch without its "break".
AfterCorrectNoBreak == "loop"

\* "break" (line 357): a correct attempt ends the loop.
AfterCorrect == "ended"

\* The completion set kept as a toggle: an id already in it is taken out.
MarkCompletedToggle(done, id) == IF id \in done THEN done \ {id} ELSE done \cup {id}

\* The id added together with its successor.
MarkCompletedTwo(done, id) == done \cup {id, id + 1}

\* self.completed_exercises[level].add(query_data['id']) (line 348).
MarkCompleted(done, id) == done \cup {id}

\* Positions of queries[l] whose exercise is not completed (line 67).
Uncompleted(l) ==
    {i \in 1..Len(queries[l]) : queries[l][i] \notin completed_exercises[l]}

\* The id generate_new_exercise gives: f"{level[0]}gen{counter}", distinct
\* from the loaded ids 1..NumExercises.
GeneratedId(counter) == NumExercises + counter

ResetAttempt ==
    /\ success' = FALSE
    /\ is_correct' = "unset"
    /\ compared' = NotCompared
    /\ similarity' = <<>>
    /\ msg' = "none"
    /\ hintText' = "none"
    /\ feedbackText' = "none"
    /\ calls' = NoCalls

\* practice_session lines 276-293: get_query_by_level (with
\* generate_new_exercise when everything is completed and a client is set),
\* then max_attempts = 3, attempt = 0.
\* Lines 67-72 with every uncompleted exercise skipped: any position.
SelectablePositionsAny(l) == 1..Len(queries[l])

\* Lines 67-72: the positions random.choice draws from: the uncompleted
\* exercises if there are any, else all of them.
SelectablePositions(l) ==
    IF Uncompleted(l) # {} THEN Uncompleted(l) ELSE 1..Len(queries[l])

\* What generate_new_exercise's advisor call and parsing can do (lines
\* 116-142): "ok" a JSON object with every field; "raise" messages.create
\* raises; "not_json" json.loads raises; "no_question" a JSON value without
\* 'question' (KeyError at line 137, after the counter was raised);
\* "incomplete" a JSON object with 'question' but without 'concepts'.
GenerationOutcomes == {"ok", "raise", "not_json", "no_question", "incomplete"}

\* Line 134 is reached: json.loads returned.
GenerationCounts(g) == g \in {"ok", "no_question", "incomplete"}

\* Line 138 is reached: generate_new_exercise returns the parsed object.
GenerationReturnsExercise(g) == g \in {"ok", "incomplete"}

\* Line 285 reads query_data['concepts']: a KeyError when it is missing.
ExerciseUsable(g) == g # "incomplete"

StartSession ==
    /\ pc = "select"
    /\ \E g \in GenerationOutcomes :
         LET total == Len(queries[level])
             allDone == Cardinality(completed_exercises[level]) >= total
             asked == allDone /\ client
             counted == asked /\ GenerationCounts(g)
             returned == asked /\ GenerationReturnsExercise(g)
             newId == GeneratedId(generated_exercise_counter + 1)
         IN  /\ counted => generated_exercise_counter < MaxGenerated
             /\ generated_exercise_counter' =
                   IF counted THEN generated_exercise_counter + 1
                   ELSE generated_exercise_counter
             /\ IF returned
                THEN /\ queries' = [queries EXCEPT ![level] = Append(@, newId)]
                     /\ query_data' = newId
                     /\ selection' = [total_exercises |-> total, generation |-> g,
                                      wasCompleted |-> FALSE]
                     /\ pc' = IF ExerciseUsable(g) THEN "loop" ELSE "failed_start"
                ELSE /\ UNCHANGED queries
                     /\ \E i \in SelectablePositions(level) :
                           /\ query_data' = queries[level][i]
                           /\ selection' =
                                 [total_exercises |-> total,
                                  generation |-> IF asked THEN g ELSE "none",
                                  wasCompleted |->
                                      queries[level][i] \in completed_exercises[level]]
                     /\ pc' = "loop"
    /\ attempt' = 0
    /\ revealed' = FALSE
    /\ exit' = "none"
    /\ history' = <<>>
    /\ ResetAttempt
    /\ UNCHANGED <<client, level, completed_exercises, user_query, cmp, hint, scoring, display>>

\* Lines 295-296: the loop condition holds, attempt += 1, the prompt.
EnterAttempt ==
    /\ pc = "loop"
    /\ LoopGuard(attempt)
    /\ attempt' = NextAttempt(attempt)
    /\ ResetAttempt
    /\ pc' = "await"
    /\ UNCHANGED <<client, level, selection, queries, completed_exercises, generated_exercise_counter,
                   query_data, user_query, revealed, exit, history, cmp, hint, scoring, display>>

\* Line 295: the loop condition fails, the loop ends.
LeaveLoop ==
    /\ pc = "loop"
    /\ ~LoopGuard(attempt)
    /\ pc' = "ended"
    /\ exit' = "exhausted"
    /\ UNCHANGED <<client, level, selection, queries, completed_exercises, generated_exercise_counter,
                   query_data, attempt, user_query, success, is_correct, compared,
                   similarity, msg, hintText, feedbackText, calls, revealed, history, cmp, hint, scoring, display>>

\* Lines 298-304: read the learner's query and execute it.
ReadAndExecute ==
    /\ pc = "await"
    /\ \E q \in UserQueries, r \in ExecResults :
         /\ user_query' = q
         /\ success' = r.success
         /\ calls' = [calls EXCEPT !.userExec = @ + 1]
         /\ IF r.success
            THEN /\ pc' = AfterExecute(r.success)
                 /\ UNCHANGED <<msg, history>>
            ELSE /\ pc' = AfterExecute(r.success)
                 /\ msg' = "SyntaxError"
                 /\ history' = Append(history, "failed")
    /\ UNCHANGED <<client, level, selection, queries, completed_exercises, generated_exercise_counter,
                   query_data, attempt, is_correct, compared, similarity, hintText, feedbackText,
                   revealed, exit, cmp, hint, scoring, display>>

\* Lines 306-321: the similarity inside try/except (an exception is
\* swallowed), the exercise's hint, then the three-way menu.
ScoreFailed ==
    /\ pc = "score_failed"
    /\ \E o \in ScorerOutcomes :
         similarity' = IF o.raised THEN <<>> ELSE <<o.value>>
    /\ calls' = [calls EXCEPT !.scorer = @ + 1, !.menu = TRUE]
    /\ pc' = "failed_menu"
    /\ UNCHANGED <<client, level, selection, queries, completed_exercises, generated_exercise_counter,
                   query_data, attempt, user_query, success, is_correct, compared, msg,
                   hintText, feedbackText, revealed, exit, history, cmp, hint, scoring, display>>

MenuChoices == {"1", "2", "3", "other"}

\* Lines 321-337: the menu after a failed execution.  '2' prints the
\* solution and breaks; '3' asks get_ai_feedback and then whether to retry;
\* anything else continues with the next attempt.
FailedMenu ==
    /\ pc = "failed_menu"
    /\ \E choice \in MenuChoices, advisor \in AdvisorOutcomes :
         LET feedback == get_ai_feedback(client, advisor)
         IN  CASE choice = "2" ->
                    /\ revealed' = TRUE
                    /\ pc' = "ended"
                    /\ exit' = "reveal"
                    /\ UNCHANGED <<calls, feedbackText>>
               [] choice = "3" /\ feedback = "Raised" ->
                    /\ pc' = "aborted"
                    /\ exit' = "AdvisorRaised"
                    /\ UNCHANGED <<revealed, calls, feedbackText>>
               [] choice = "3" /\ feedback # "Raised" ->
                    /\ calls' = [calls EXCEPT !.feedback = @ + 1]
                    /\ feedbackText' = feedback
                    /\ pc' = "failed_retry"
                    /\ UNCHANGED <<revealed, exit>>
               [] OTHER ->
                    /\ pc' = "loop"
                    /\ UNCHANGED <<revealed, exit, calls, feedbackText>>
    /\ UNCHANGED <<client, level, selection, queries, completed_exercises,
                   generated_exercise_counter, query_data, attempt, user_query, success,
                   is_correct, compared, similarity, msg, hintText, history, cmp, hint,
                   scoring, display>>

\* Lines 331-335: "Would you like to try again?" after advisor help on a
\* failed execution.
FailedRetry ==
    /\ pc = "failed_retry"
    /\ \E retry \in {"y", "n"} :
         IF retry = "y"
         THEN pc' = "loop" /\ UNCHANGED exit
         ELSE pc' = "ended" /\ exit' = "declined"
    /\ UNCHANGED <<client, level, selection, queries, completed_exercises, generated_exercise_counter,
                   query_data, attempt, user_query, success, is_correct, compared,
                   similarity, msg, hintText, feedbackText, calls, revealed, history, cmp, hint, scoring, display>>

\* Lines 340-357: compare_results executes both queries again and decides;
\* on "True" the exercise is marked completed and the loop breaks.  A
\* TypeError of sorted() is caught nowhere.
Compare ==
    /\ pc = "compare"
    /\ \E o \in CompareOutcomes :
         /\ compared' = [userOk |-> o.userOk, refOk |-> o.refOk]
         /\ calls' = [calls EXCEPT !.userExec = @ + 1, !.refExec = @ + 1]
         /\ CASE o.out = "TypeError" ->
                    /\ pc' = "aborted"
                    /\ exit' = "TypeError"
                    /\ UNCHANGED <<is_correct, msg, completed_exercises, history>>
               [] o.out = "True" ->
                    /\ is_correct' = "True"
                    /\ msg' = "Correct"
                    /\ completed_exercises' =
                          [completed_exercises EXCEPT ![level] = MarkCompleted(@, query_data)]
                    /\ history' = Append(history, "correct")
                    /\ pc' = AfterCorrect
                    /\ exit' = "correct"
               [] o.out = "False" ->
                    /\ is_correct' = "False"
                    /\ history' = Append(history, "incorrect")
                    /\ pc' = "score_incorrect"
                    /\ UNCHANGED <<msg, completed_exercises, exit>>
    /\ UNCHANGED <<client, level, selection, queries, generated_exercise_counter, query_data,
                   attempt, user_query, success, similarity, hintText, feedbackText, revealed, cmp, hint, scoring, display>>

\* Lines 359-378: the similarity (no try/except here), "Not quite right",
\* both result sets (the solution is executed once more), then the branch
\* on attempt < max_attempts.
ScoreIncorrect ==
    /\ pc = "score_incorrect"
    /\ \E o \in ScorerOutcomes :
         IF o.raised
         THEN /\ pc' = "aborted"
              /\ exit' = "ScorerRaised"
              /\ calls' = [calls EXCEPT !.scorer = @ + 1]
              /\ UNCHANGED <<similarity, msg>>
         ELSE /\ similarity' = <<o.value>>
              /\ msg' = "NotQuiteRight"
              /\ calls' = [calls EXCEPT !.scorer = @ + 1, !.refExec = @ + 1]
              /\ pc' = IF AttemptsRemain(attempt) THEN "hint" ELSE "final"
              /\ UNCHANGED exit
    /\ UNCHANGED <<client, level, selection, queries, completed_exercises, generated_exercise_counter,
                   query_data, attempt, user_query, success, is_correct, compared,
                   hintText, feedbackText, revealed, history, cmp, hint, scoring, display>>

\* Lines 379-387: the progressive hint, then the three-way menu.
Hint ==
    /\ pc = "hint"
    /\ \E advisor \in AdvisorOutcomes :
         hintText' = get_progressive_hint(client, user_query, similarity[1], attempt, advisor)
    /\ calls' = [calls EXCEPT !.hintPolicy = @ + 1, !.menu = TRUE]
    /\ pc' = "menu"
    /\ UNCHANGED <<client, level, selection, queries, completed_exercises, generated_exercise_counter,
                   query_data, attempt, user_query, success, is_correct, compared,
                   similarity, msg, feedbackText, revealed, exit, history, cmp, hint, scoring, display>>

\* Lines 387-408: the menu after an incorrect attempt.  '2' prints the
\* solution, asks get_ai_feedback and breaks; '3' asks get_ai_feedback and
\* then whether to retry; anything else continues with the next attempt.
Menu ==
    /\ pc = "menu"
    /\ \E choice \in MenuChoices, advisor \in AdvisorOutcomes :
         LET feedback == get_ai_feedback(client, advisor)
         IN  CASE choice \in {"2", "3"} /\ feedback = "Raised" ->
                    /\ revealed' = (revealed \/ choice = "2")
                    /\ pc' = "aborted"
                    /\ exit' = "AdvisorRaised"
                    /\ UNCHANGED <<calls, feedbackText>>
               [] choice = "2" /\ feedback # "Raised" ->
                    /\ revealed' = TRUE
                    /\ calls' = [calls EXCEPT !.feedback = @ + 1]
                    /\ feedbackText' = feedback
                    /\ pc' = "ended"
                    /\ exit' = "reveal"
               [] choice = "3" /\ feedback # "Raised" ->
                    /\ calls' = [calls EXCEPT !.feedback = @ + 1]
                    /\ feedbackText' = feedback
                    /\ pc' = "retry"
                    /\ UNCHANGED <<revealed, exit>>
               [] OTHER ->
                    /\ pc' = "loop"
                    /\ UNCHANGED <<revealed, exit, calls, feedbackText>>
    /\ UNCHANGED <<client, level, selection, queries, completed_exercises,
                   generated_exercise_counter, query_data, attempt, user_query, success,
                   is_correct, compared, similarity, msg, hintText, history, cmp, hint,
                   scoring, display>>

\* Lines 403-407: "Would you like to try again?" after advisor help on an
\* incorrect attempt.
Retry ==
    /\ pc = "retry"
    /\ \E retry \in {"y", "n"} :
         IF retry = "y"
         THEN pc' = "loop" /\ UNCHANGED exit
         ELSE pc' = "ended" /\ exit' = "declined"
    /\ UNCHANGED <<client, level, selection, queries, completed_exercises, generated_exercise_counter,
                   query_data, attempt, user_query, success, is_correct, compared,
                   similarity, msg, hintText, feedbackText, calls, revealed, history, cmp, hint, scoring, display>>

\* Lines 409-423: all attempts used: the solution, one get_ai_feedback, break.
Final ==
    /\ pc = "final"
    /\ \E advisor \in AdvisorOutcomes :
         LET feedback == get_ai_feedback(client, advisor)
         IN  IF feedback = "Raised"
             THEN /\ pc' = "aborted"
                  /\ exit' = "AdvisorRaised"
                  /\ UNCHANGED <<calls, feedbackText>>
             ELSE /\ calls' = [calls EXCEPT !.feedback = @ + 1]
                  /\ feedbackText' = feedback
                  /\ pc' = "ended"
                  /\ exit' = "final"
    /\ revealed' = TRUE
    /\ UNCHANGED <<client, level, selection, queries, completed_exercises,
                   generated_exercise_counter, query_data, attempt, user_query, success,
                   is_correct, compared, similarity, msg, hintText, history, cmp, hint,
                   scoring, display>>

\* Lines 425-429: "Try another question?": 'y' starts practice_session
\* again with the same level in a new frame, 'n' returns.  Either way
\* the locals of the finished session are not read again.
Continue ==
    /\ pc = "ended"
    /\ \E cont \in {"y", "n"} :
         pc' = IF cont = "y" THEN "select" ELSE "done"
    /\ query_data' = 0
    /\ selection' = NotSelected
    /\ attempt' = 0
    /\ user_query' = "q1"
    /\ revealed' = FALSE
    /\ exit' = "none"
    /\ history' = <<>>
    /\ ResetAttempt
    /\ UNCHANGED <<client, level, queries, completed_exercises, generated_exercise_counter,
                   cmp, hint, scoring, display>>

Next ==
    \/ StartSession
    \/ EnterAttempt
    \/ LeaveLoop
    \/ ReadAndExecute
    \/ ScoreFailed
    \/ FailedMenu
    \/ FailedRetry
    \/ Compare
    \/ ScoreIncorrect
    \/ Hint
    \/ Menu
    \/ Retry
    \/ Final
    \/ Continue

Spec == Init /\ [][Next]_vars

\* ------------------------------------ compare_results on bounded inputs

InitCmp ==
    /\ InitSession
    /\ ~client
    /\ level = "beginner"
    /\ hint = HintIdle
    /\ scoring = ScoreIdle
    /\ display = DisplayIdle
    /\ cmp \in [user : ExecResults, solution : ExecResults, out : {"idle"}]

\* One call of compare_results on the results of its two executions.
CallCompare ==
    /\ cmp.out = "idle"
    /\ cmp' = [cmp EXCEPT !.out = compare_results(cmp.user, cmp.solution)]
    /\ UNCHANGED <<sessionVars, hint, scoring, display>>

NextCmp == CallCompare

SpecCmp == InitCmp /\ [][NextCmp]_vars

\* -------------------------------- get_progressive_hint on bounded inputs

InitHint ==
    /\ InitSession
    /\ ~client
    /\ level = "beginner"
    /\ cmp = CmpIdle
    /\ scoring = ScoreIdle
    /\ display = DisplayIdle
    /\ hint \in [hasClient : BOOLEAN, user_query : UserQueries, score : Scores,
                  attemptNo : 1..max_attempts, advisor : AdvisorOutcomes, out : {"idle"}]

\* One call of get_progressive_hint.
CallHint ==
    /\ hint.out = "idle"
    /\ hint' = [hint EXCEPT !.out = get_progressive_hint(hint.hasClient, hint.user_query,
                                        hint.score, hint.attemptNo, hint.advisor)]
    /\ UNCHANGED <<sessionVars, cmp, scoring, display>>

NextHint == CallHint

SpecHint == InitHint /\ [][NextHint]_vars

\* ------------------------- calculate_query_similarity on bounded inputs

InitScore ==
    /\ InitSession
    /\ ~client
    /\ level = "beginner"
    /\ cmp = CmpIdle
    /\ hint = HintIdle
    /\ display = DisplayIdle
    /\ scoring \in [e1 : Vectors, e2 : Vectors, out : {<<>>}]

\* One call of calculate_query_similarity on the embedder's two vectors.
CallScore ==
    /\ scoring.out = <<>>
    /\ scoring' = [scoring EXCEPT !.out = <<calculate_query_similarity(scoring.e1, scoring.e2)>>]
    /\ UNCHANGED <<sessionVars, cmp, hint, display>>

NextScore == CallScore

SpecScore == InitScore /\ [][NextScore]_vars

\* ------------------------------------- display_results on bounded inputs

InitDisplay ==
    /\ InitSession
    /\ ~client
    /\ level = "beginner"
    /\ cmp = CmpIdle
    /\ hint = HintIdle
    /\ scoring = ScoreIdle
    /\ display \in [results : DisplayInputs, called : {FALSE}, printed : {<<>>}, more : {<<>>}]

\* One call of display_results.
CallDisplay ==
    /\ ~display.called
    /\ display' = [display EXCEPT !.called = TRUE,
                                  !.printed = display_results(display.results).printed,
                                  !.more = display_results(display.results).more]
    /\ UNCHANGED <<sessionVars, cmp, hint, scoring>>

NextDisplay == CallDisplay

SpecDisplay == InitDisplay /\ [][NextDisplay]_vars

\* ------------------------------------------------------------- properties

\* Positions of practice_session at which a learner query is being read,
\* executed or judged.
AttemptPositions ==
    {"await", "score_failed", "failed_menu", "failed_retry", "compare",
     "score_incorrect", "hint", "menu", "retry", "final"}

\* C1: attempt always lies in 0..max_attempts, and a learner query is
\* requested, executed and judged only with attempt in 1..max_attempts.
C1_AttemptWithinMax ==
    /\ attempt \in 0..max_attempts
    /\ (pc \in AttemptPositions => attempt \in 1..max_attempts)
    /\ Len(history) <= max_attempts

\* C1 witness: the third query is requested after two consumed attempts.
C1_Witness ==
    pc = "await" /\ attempt = max_attempts /\ history = <<"incorrect", "failed">>

\* C2: once an attempt that executed and was judged non-equivalent at
\* attempt = max_attempts has been dealt with, the solution has been
\* revealed, exactly one final explanation was requested, no menu was
\* offered, the hint policy was not invoked, and the session did not abort.
C2_ForcedRevealAtMax ==
    (/\ attempt = max_attempts
     /\ is_correct = "False"
     /\ pc \in {"ended", "aborted", "done"})
        => /\ pc # "aborted"
           /\ revealed
           /\ calls.feedback = 1
           /\ ~calls.menu
           /\ calls.hintPolicy = 0

FailedPositions == {"score_failed", "failed_menu", "failed_retry", "loop"}

\* C4: after a failed execution the similarity is computed once, the
\* completion sets stay as they are, attempt stays as it is until the next
\* attempt is entered, and with attempt < max_attempts a retry enters the
\* next attempt with attempt + 1.
C4_FailedAttemptConsumesOneSlot ==
    [][(msg = "SyntaxError" /\ pc \in FailedPositions) =>
          /\ completed_exercises' = completed_exercises
          /\ (pc = "score_failed" => calls'.scorer = 1 /\ pc' = "failed_menu")
          /\ (pc' = "await" => attempt < max_attempts /\ attempt' = attempt + 1)
          /\ (pc' # "await" => attempt' = attempt)
          /\ (pc = "loop" /\ attempt < max_attempts => pc' = "await")]_vars

\* C4 witness: the second query is requested after a failed first attempt.
C4_Witness ==
    pc = "await" /\ attempt = 2 /\ history = <<"failed">>

\* The tier table: near-miss above 0.8, on-track in (0.6, 0.8], partial in
\* (0.4, 0.6], off-track up to 0.4.
TierOf(score) ==
    CASE score > 80 -> "NearMiss"
      [] score > 60 /\ score <= 80 -> "OnTrack"
      [] score > 40 /\ score <= 60 -> "Partial"
      [] score <= 40 -> "OffTrack"

\* C5: with an advisor configured whose call fails, get_progressive_hint
\* returns the fallback text of the score's tier.
C5_FallbackOnAdvisorFailure ==
    (hint.out # "idle" /\ hint.hasClient /\ hint.advisor = "raise" /\ hint.score # NaN)
        => hint.out = TierOf(hint.score)

\* C6: an exception of the similarity scorer never aborts the session.
C6_ScorerFailureNotFatal ==
    ~(pc = "aborted" /\ exit = "ScorerRaised")

\* C7: an attempt whose query executed while the solution failed to execute
\* is not reported with the message of an ordinary incorrect attempt.
C7_ReferenceErrorDistinct ==
    (success /\ compared.userOk /\ ~compared.refOk /\ is_correct = "False" /\ msg # "none")
        => msg # "NotQuiteRight"

\* C8: without an advisor the hint is the tier of the score, whatever the
\* attempt number and the learner's query: near-miss iff score > 0.8,
\* on-track iff 0.6 < score <= 0.8, partial iff 0.4 < score <= 0.6,
\* off-track iff score <= 0.4.
C8_TierBoundaries ==
    (hint.out # "idle" /\ ~hint.hasClient /\ hint.score # NaN) =>
        /\ (hint.out = "NearMiss" <=> hint.score > 80)
        /\ (hint.out = "OnTrack" <=> (hint.score > 60 /\ hint.score <= 80))
        /\ (hint.out = "Partial" <=> (hint.score > 40 /\ hint.score <= 60))
        /\ (hint.out = "OffTrack" <=> hint.score <= 40)

\* C8 witness: a score of exactly 0.8 on the third attempt got on-track.
C8_Witness ==
    /\ hint.out = "OnTrack" /\ hint.score = 80 /\ ~hint.hasClient
    /\ hint.attemptNo = 3 /\ hint.user_query = "q2"

\* C9: compare_results returns False when either execution failed.
C9_FailedExecutionNotEquivalent ==
    (cmp.out # "idle" /\ (~cmp.user.success \/ ~cmp.solution.success))
        => cmp.out = "False"

\* C9 witness: the learner's query returned rows, the solution failed.
C9_Witness ==
    /\ cmp.out = "False"
    /\ cmp.user.success /\ Len(cmp.user.rows) = MaxRows
    /\ ~cmp.solution.success

\* Number of occurrences of row in rows.
Occurrences(row, rows) == Cardinality({i \in 1..Len(rows) : rows[i] = row})

SameRowMultiset(rows1, rows2) ==
    \A row \in RowUniverse : Occurrences(row, rows1) = Occurrences(row, rows2)

\* C10: for two successful results compare_results returns True iff the
\* row multisets are equal and the column lists are equal, False otherwise.
C10_MultisetAndColumns ==
    (cmp.out # "idle" /\ cmp.user.success /\ cmp.solution.success) =>
        cmp.out = IF SameRowMultiset(cmp.user.rows, cmp.solution.rows)
                       /\ cmp.user.columns = cmp.solution.columns
                  THEN "True" ELSE "False"

\* C11: a Correct outcome raises no level's completed count by more than
\* 1, no step lowers it, and a Correct outcome for an exercise already in
\* the completion set leaves the count as it is.
C11_MarkCompletedIdempotent ==
    [][/\ \A l \in Levels :
            Cardinality(completed_exercises'[l]) - Cardinality(completed_exercises[l])
                \in {0, 1}
       /\ (is_correct # "True" /\ is_correct' = "True" /\ selection.wasCompleted) =>
            Cardinality(completed_exercises'[level]) = Cardinality(completed_exercises[level])
      ]_vars

\* C11 witness: an exercise that was already completed was solved again.
C11_Witness ==
    /\ pc = "ended" /\ exit = "correct" /\ selection.wasCompleted
    /\ Cardinality(completed_exercises[level]) = NumExercises

\* C12: a correct verdict ends the loop at that attempt: the position is
\* past the loop, the attempt is the last of the history, and in that
\* attempt no similarity was computed and neither the hint policy nor
\* get_ai_feedback was called.
C12_CorrectIsTerminal ==
    is_correct = "True" =>
        /\ pc = "ended" /\ exit = "correct"
        /\ success
        /\ Len(history) = attempt /\ history[attempt] = "correct"
        /\ calls.scorer = 0 /\ calls.hintPolicy = 0 /\ calls.feedback = 0
        /\ hintText = "none" /\ feedbackText = "none" /\ similarity = <<>>

\* C12 witness: Correct on the first attempt.
C12_Witness ==
    is_correct = "True" /\ attempt = 1 /\ pc = "ended" /\ query_data \in completed_exercises[level]

\* C13: a verdict exists only for a query that executed, and the solution
\* was executed in that same attempt; after a failed execution the
\* solution was not executed and compare_results was not run.
C13_ReferenceExecutedEachAttempt ==
    /\ is_correct # "unset" => (success /\ calls.refExec >= 1)
    /\ pc \in {"score_incorrect", "hint", "menu", "retry", "final"} =>
          (success /\ calls.refExec >= 1)
    /\ msg = "SyntaxError" =>
          (~success /\ calls.refExec = 0 /\ is_correct = "unset" /\ compared = NotCompared)

\* C13 witness: the solution was executed again in a second executed attempt.
C13_Witness ==
    /\ pc = "score_incorrect" /\ attempt = 2 /\ calls.refExec = 1
    /\ history = <<"incorrect", "incorrect">>

FallbackTiers == {"NearMiss", "OnTrack", "Partial", "OffTrack"}

\* C14: without a client the hint is a basic hint, the feedback is the
\* fixed "not available" text, no exercise is generated, selection returns
\* a loaded exercise, and nothing of these raises.
C14_NoAdvisorFallbacks ==
    ~client =>
        /\ hintText \in FallbackTiers \cup {"none"}
        /\ feedbackText \in {"FeedbackUnavailable", "none"}
        /\ selection.generation = "none"
        /\ generated_exercise_counter = 0
        /\ query_data \in 0..NumExercises
        /\ (pc \notin {"select", "done"} => query_data \in 1..NumExercises)
        /\ pc # "failed_start"
        /\ exit # "AdvisorRaised"

\* C14 witness: without a client every exercise was completed, one of them
\* was selected again, and hint, reveal and feedback were given.
C14_Witness ==
    /\ ~client /\ selection.wasCompleted /\ exit = "reveal"
    /\ hintText = "OffTrack" /\ feedbackText = "FeedbackUnavailable"

FailedGenerations == {"raise", "not_json", "no_question", "incomplete"}

\* C15: when generation was asked for and failed (the call raised or its
\* output was not the required structure), selection returned one of the
\* exercises the level already had and the level's list is unchanged.
C15_GenerationFailureFallsBack ==
    selection.generation \in FailedGenerations =>
        /\ pc # "failed_start"
        /\ Len(queries[level]) = selection.total_exercises
        /\ \E i \in 1..selection.total_exercises : query_data = queries[level][i]

\* C16: with a zero-norm embedding the similarity is 0.0.
C16_ZeroNormGivesZero ==
    (scoring.out # <<>> /\ (NormSq(scoring.e1) = 0 \/ NormSq(scoring.e2) = 0))
        => scoring.out = <<0>>

\* C17: of n rows exactly the first min(n, 10) are printed, in order, and
\* the "(n - 10) more rows" line is printed iff n > 10.
C17_DisplayTruncation ==
    display.called =>
        LET n == Len(display.results)
        IN  /\ Len(display.printed) = (IF n < 10 THEN n ELSE 10)
            /\ \A i \in 1..Len(display.printed) : display.printed[i] = display.results[i]
            /\ (display.more # <<>>) <=> (n > 10)
            /\ (n > 10 => display.more = <<n - 10>>)

\* C17 witness: exactly 10 rows, all printed, no "more rows" line.
C17_Witness ==
    display.called /\ Len(display.results) = 10 /\ Len(display.printed) = 10
        /\ display.more = <<>>

\* C18: without an advisor a negative score gets the tier a score of 0
\* gets, off-track.
C18_NegativeScoreAsZero ==
    (hint.out # "idle" /\ ~hint.hasClient /\ hint.score # NaN /\ hint.score <= 0)
        => hint.out = "OffTrack"

\* C18 witness: a score of -1.0 got off-track.
C18_Witness ==
    hint.out = "OffTrack" /\ ~hint.hasClient /\ hint.score = -100

\* C19 as stated: when the loop has ended without a correct attempt the
\* solution has been revealed.
C19_Original ==
    (pc = "ended" /\ exit # "correct") => revealed

\* C19 amended: when the loop has ended without a correct attempt, the
\* solution has been revealed iff the loop ended by the choice to see the
\* solution or by an executed, non-equivalent attempt at max_attempts; it
\* has not been revealed when the loop ran out after a failed execution
\* at max_attempts or ended by declining to retry after advisor help.
C19_RevealOnExit ==
    (pc = "ended" /\ exit # "correct") =>
        /\ revealed <=> exit \in {"reveal", "final"}
        /\ exit = "exhausted" =>
              (attempt = max_attempts /\ history[max_attempts] = "failed")
        /\ exit = "final" =>
              (attempt = max_attempts /\ history[max_attempts] = "incorrect")
        /\ exit = "declined" => calls.feedback = 1

\* C19 witness: the third attempt failed to execute, the learner chose to
\* try again, the loop ended with nothing revealed.
C19_Witness ==
    /\ pc = "ended" /\ exit = "exhausted" /\ ~revealed
    /\ attempt = max_attempts /\ history[max_attempts] = "failed"

\* C20: the completion sets change only by a correct verdict, and then
\* only the session's level gains the session's exercise; no id is removed.
C20_CompletionFrame ==
    [][/\ \A l \in Levels : completed_exercises[l] \subseteq completed_exercises'[l]
       /\ completed_exercises' # completed_exercises =>
            /\ pc = "compare" /\ is_correct' = "True"
            /\ completed_exercises' =
                  [completed_exercises EXCEPT ![level] = @ \cup {query_data}]
      ]_vars

\* C20 witness: a correct verdict added the session's exercise.
C20_Witness ==
    /\ pc = "ended" /\ exit = "correct" /\ ~selection.wasCompleted
    /\ query_data \in completed_exercises[level]
    /\ history = <<"failed", "incorrect", "correct">>

\* C21: within an attempt the learner's query is executed once, so the
\* execution compare_results judged is the one whose result is shown.
C21_UserQueryExecutedOnce ==
    /\ calls.userExec <= 1
    /\ is_correct # "unset" => compared.userOk = success

\* C22: selection returns a completed exercise only when the level has no
\* uncompleted exercise and no generated exercise was added to it.
C22_SelectionPrefersUncompleted ==
    [][(pc = "select" /\ pc' # "select" /\ query_data' \in completed_exercises[level]) =>
          /\ Uncompleted(level) = {}
          /\ queries' = queries
          /\ (client => selection'.generation \in FailedGenerations)
      ]_vars

\* C22 witness: with a client, every exercise completed and generation
\* failing, a completed exercise was selected.
C22_Witness ==
    /\ pc = "loop" /\ client /\ selection.wasCompleted
    /\ selection.generation = "raise"
    /\ query_data \in completed_exercises[level]

====
